---- MODULE Spec2Model ----
(***************************************************************************)
(* Client-side scripting layer of the portfolio site: the Localization     *)
(* Store (I18n), the blog Content Listing Engine (BlogManager) with its    *)
(* debounced search box, and the research listing's language subscriber.   *)
(* Strings are sequences of one-character strings, so that toLowerCase,    *)
(* includes and split are computed rather than assumed.                    *)
(***************************************************************************)
EXTENDS Integers, Sequences, FiniteSets, TLC

\* ------------------------------------------------------------------ bounds
\* Number of posts in the largest blog-posts.json the model loads.
MaxPosts == 15
\* Number of posts in the mid-size blog-posts.json (10 published, 2 not).
MidPosts == 12
\* Cap on currentPage, so that repeated "next" clicks stay finite.
MaxPage == 4

\* --------------------------------------------------------- program constants
postsPerPage == 6
DebounceWait == 300

\* ------------------------------------------------------------------ strings
\* String.prototype.toLowerCase on one character of the model's alphabet.
LowerChar(c) ==
    CASE c = "A" -> "a"
      [] c = "B" -> "b"
      [] c = "C" -> "c"
      [] c = "P" -> "p"
      [] OTHER -> c

\* Mutant: the comparison forgets to fold case.
ToLowerCaseIdentity(s) == s

ToLowerCase(s) == [i \in 1..Len(s) |-> LowerChar(s[i])]

\* String.prototype.includes: q occurs in s as a contiguous substring.
StrIncludes(s, q) ==
    \E i \in 0..(Len(s) - Len(q)) : SubSeq(s, i + 1, i + Len(q)) = q

\* Array.prototype.includes on a sequence.
ArrIncludes(arr, x) == \E i \in 1..Len(arr) : arr[i] = x

\* ------------------------------------------------------- blog-posts.json
NoTag == "null"

\* The i-th post of the static asset. Dates repeat and are not in order;
\* every sixth post is unpublished; the Portuguese title matches the query
\* "a" only for odd posts, the excerpts match "bc" only for some posts.
MkPost(i) ==
    [ id        |-> i,
      category  |-> IF i % 3 = 0 THEN "econ" ELSE IF i % 3 = 1 THEN "tech" ELSE "notes",
      tags      |-> IF i % 4 = 0 THEN <<"data", "ml">>
                    ELSE IF i % 4 = 1 THEN <<"ml">>
                    ELSE IF i % 4 = 2 THEN <<"data">> ELSE << >>,
      date      |-> (i * 7) % 5,
      published |-> (i % 6 # 0),
      title     |-> [ en |-> <<"P", "A">>,
                      pt |-> IF i % 2 = 1 THEN <<"a", "P">> ELSE <<"P", "o">> ],
      excerpt   |-> [ en |-> IF i % 3 = 0 THEN <<"x", "B", "c">> ELSE <<"x", "c">>,
                      pt |-> IF i % 3 = 1 THEN <<"b", "C">> ELSE <<"d">> ] ]

\* The categories table of the asset: per language, the ordered key list.
\* "empty" is a key no post uses; "notes" has no Portuguese entry.
DocCategories ==
    [ en |-> <<"econ", "tech", "notes", "empty">>,
      pt |-> <<"tech", "econ", "empty">> ]

\* The document with n posts.
MkDoc(n) == [ posts |-> [i \in 1..n |-> MkPost(i)], categories |-> DocCategories ]

DocSizes == {0, MidPosts, MaxPosts}

\* Values the user types into the search box.
SearchInputs == { << >>, <<"a">>, <<"B", "c">> }

\* ------------------------------------------------------------ BlogManager
\* BlogManager.constructor: the manager before init() resolves.
NewBlogManager ==
    [ posts           |-> << >>,
      categories      |-> [ en |-> << >>, pt |-> << >> ],
      currentPage     |-> 1,
      currentCategory |-> "all",
      currentTag      |-> NoTag,
      searchQuery     |-> << >> ]

\* Mutant: init() keeps every post of the document.
PublishedOnlyKeepAll(ps) == ps

\* data.posts.filter(post => post.published)
PublishedOnly(ps) ==
    LET Keep(p) == p.published IN SelectSeq(ps, Keep)

\* Mutant: an unstable sort, p goes in front of the posts of its own date.
InsertByDateBeforeEquals(sorted, p) ==
    LET k == Cardinality({ j \in 1..Len(sorted) : sorted[j].date > p.date })
    IN  SubSeq(sorted, 1, k) \o <<p>> \o SubSeq(sorted, k + 1, Len(sorted))

\* Array.prototype.sort with (a, b) => new Date(b.date) - new Date(a.date):
\* newest first, stable. InsertByDate puts p behind every post at least as new.
InsertByDate(sorted, p) ==
    LET k == Cardinality({ j \in 1..Len(sorted) : sorted[j].date >= p.date })
    IN  SubSeq(sorted, 1, k) \o <<p>> \o SubSeq(sorted, k + 1, Len(sorted))

RECURSIVE SortByDate(_)
SortByDate(ps) ==
    IF Len(ps) <= 1 THEN ps
    ELSE InsertByDate(SortByDate(SubSeq(ps, 1, Len(ps) - 1)), ps[Len(ps)])

\* BlogManager.getFilteredPosts, for manager b and current language lang.
getFilteredPosts(b, lang) ==
    LET InCategory(p) == p.category = b.currentCategory
        HasTag(p)     == ArrIncludes(p.tags, b.currentTag)
        query         == ToLowerCase(b.searchQuery)
        Matches(p)    == \/ StrIncludes(ToLowerCase(p.title[lang]), query)
                         \/ StrIncludes(ToLowerCase(p.excerpt[lang]), query)
        byCategory    == IF b.currentCategory # "all"
                         THEN SelectSeq(b.posts, InCategory) ELSE b.posts
        byTag         == IF b.currentTag # NoTag
                         THEN SelectSeq(byCategory, HasTag) ELSE byCategory
        byQuery       == IF b.searchQuery # << >>
                         THEN SelectSeq(byTag, Matches) ELSE byTag
    IN  SortByDate(byQuery)

\* Mutant: the slice starts at currentPage * postsPerPage.
getPaginatedPostsOffByOne(b, lang) ==
    LET filtered == getFilteredPosts(b, lang)
        start    == b.currentPage * postsPerPage
        end      == start + postsPerPage
        last     == IF end < Len(filtered) THEN end ELSE Len(filtered)
    IN  SubSeq(filtered, start + 1, last)

\* BlogManager.getPaginatedPosts: filtered.slice(start, end).
getPaginatedPosts(b, lang) ==
    LET filtered == getFilteredPosts(b, lang)
        start    == (b.currentPage - 1) * postsPerPage
        end      == start + postsPerPage
        last     == IF end < Len(filtered) THEN end ELSE Len(filtered)
    IN  SubSeq(filtered, start + 1, last)

\* BlogManager.getTotalPages: Math.ceil(length / postsPerPage).
getTotalPages(b, lang) ==
    (Len(getFilteredPosts(b, lang)) + postsPerPage - 1) \div postsPerPage

\* BlogManager.renderEmpty: the "no posts found" message in language lang.
renderEmpty(lang) == [ kind |-> "empty", lang |-> lang, ids |-> << >> ]

\* BlogManager.renderPosts: the card grid, or the empty message.
renderPosts(b, lang) ==
    LET posts == getPaginatedPosts(b, lang)
    IN  IF Len(posts) = 0 THEN renderEmpty(lang)
        ELSE [ kind |-> "cards", lang |-> lang,
               ids  |-> [i \in 1..Len(posts) |-> posts[i].id] ]

\* Mutant: every key of categories[lang] gets an entry, whatever its count.
renderCategoriesShowAll(b, lang) ==
    LET keys       == IF lang \in DOMAIN b.categories THEN b.categories[lang] ELSE << >>
        Count(key) == Cardinality({ i \in 1..Len(b.posts) : b.posts[i].category = key })
        Entry(key) == [ key |-> key, count |-> Count(key),
                        active |-> (b.currentCategory = key) ]
    IN  << [ key |-> "all", count |-> Len(b.posts),
             active |-> (b.currentCategory = "all") ] >>
        \o [i \in 1..Len(keys) |-> Entry(keys[i])]

\* BlogManager.renderCategories: "all" with the post count, then one entry per
\* key of categories[lang] that at least one loaded post has.
renderCategories(b, lang) ==
    LET keys       == IF lang \in DOMAIN b.categories THEN b.categories[lang] ELSE << >>
        Count(key) == Cardinality({ i \in 1..Len(b.posts) : b.posts[i].category = key })
        Entry(key) == [ key |-> key, count |-> Count(key),
                        active |-> (b.currentCategory = key) ]
        entries    == [i \in 1..Len(keys) |-> Entry(keys[i])]
        Shown(e)   == e.count > 0
    IN  << [ key |-> "all", count |-> Len(b.posts),
             active |-> (b.currentCategory = "all") ] >>
        \o SelectSeq(entries, Shown)

\* Set.add for each tag of one post, keeping insertion order.
RECURSIVE AddTags(_, _)
AddTags(used, tags) ==
    IF tags = << >> THEN used
    ELSE AddTags(IF ArrIncludes(used, Head(tags)) THEN used
                 ELSE Append(used, Head(tags)), Tail(tags))

RECURSIVE UsedTags(_)
UsedTags(ps) ==
    IF ps = << >> THEN << >>
    ELSE AddTags(UsedTags(SubSeq(ps, 1, Len(ps) - 1)), ps[Len(ps)].tags)

\* BlogManager.renderTags: the tag cloud, the selected tag marked active.
renderTags(b) ==
    LET used == UsedTags(b.posts)
    IN  [i \in 1..Len(used) |-> [ tag |-> used[i], active |-> (b.currentTag = used[i]) ]]

\* BlogManager.renderPagination: previous, one button per page, next.
renderPagination(b, lang) ==
    LET totalPages == getTotalPages(b, lang)
    IN  IF totalPages <= 1 THEN << >>
        ELSE << [ kind |-> "prev", page |-> b.currentPage - 1,
                  disabled |-> (b.currentPage = 1), active |-> FALSE ] >>
             \o [i \in 1..totalPages |->
                   [ kind |-> "num", page |-> i, disabled |-> FALSE,
                     active |-> (b.currentPage = i) ]]
             \o << [ kind |-> "next", page |-> b.currentPage + 1,
                     disabled |-> (b.currentPage = totalPages), active |-> FALSE ] >>

\* BlogManager.render: the four regions of the blog page.
render(b, lang) ==
    [ blogGrid       |-> renderPosts(b, lang),
      categoryList   |-> renderCategories(b, lang),
      tagCloud       |-> renderTags(b),
      blogPagination |-> renderPagination(b, lang) ]

\* The static markup of the blog page before any script has rendered into it.
MarkupBlog ==
    [ blogGrid       |-> [ kind |-> "markup", lang |-> "markup", ids |-> << >> ],
      categoryList   |-> << >>,
      tagCloud       |-> << >>,
      blogPagination |-> << >> ]

\* -------------------------------------------------------------------- I18n
Langs == {"en", "pt"}
\* Codes handed to setLanguage: the two recognized ones and another.
LangCodes == {"en", "pt", "fr"}
NoItem == "null"

Undefined == [ t |-> "undef", v |-> << >>, f |-> << >> ]
Str(chars) == [ t |-> "str", v |-> chars, f |-> << >> ]
Obj(fields) == [ t |-> "obj", v |-> << >>, f |-> fields ]

\* translations.json: per language a nested table. "e" is an empty string in
\* English and "n" is a sub-table, not a string.
TranslationsDoc ==
    [ en |-> Obj( (<<"n">> :> Obj(<<"h">> :> Str(<<"H", "i">>)))
                  @@ (<<"t">> :> Str(<<"T", "e">>))
                  @@ (<<"e">> :> Str(<< >>)) ),
      pt |-> Obj( (<<"n">> :> Obj(<<"h">> :> Str(<<"O", "i">>)))
                  @@ (<<"t">> :> Str(<<"T", "p">>)) ) ]

\* this.translations = {} of the constructor.
NoTranslations == [ l \in {} |-> Undefined ]

\* The data-i18n keys of the tagged elements of the page.
TaggedKeys == { <<"n", ".", "h">>, <<"t">>, <<"e">>, <<"q">> }

\* String.prototype.split('.')
RECURSIVE SplitDots(_)
SplitDots(s) ==
    IF \A i \in 1..Len(s) : s[i] # "."
    THEN <<s>>
    ELSE LET dot == CHOOSE i \in 1..Len(s) :
                        s[i] = "." /\ \A j \in 1..(i - 1) : s[j] # "."
         IN  <<SubSeq(s, 1, dot - 1)>> \o SplitDots(SubSeq(s, dot + 1, Len(s)))

\* JavaScript truthiness of a table value.
Truthy(value) == value.t = "obj" \/ (value.t = "str" /\ value.v # << >>)

\* value[k] on an object value.
GetField(value, k) == IF k \in DOMAIN value.f THEN value.f[k] ELSE Undefined

\* The for-loop and final "value || key" of I18n.translate.
RECURSIVE WalkKeys(_, _, _)
WalkKeys(value, keys, key) ==
    IF keys = << >>
    THEN IF Truthy(value) THEN value ELSE Str(key)
    ELSE IF Truthy(value) /\ value.t = "obj"
         THEN WalkKeys(GetField(value, Head(keys)), Tail(keys), key)
         ELSE Str(key)

\* I18n.translate(key) for store i.
translate(i, key) ==
    LET root == IF i.currentLang \in DOMAIN i.translations
                THEN i.translations[i.currentLang] ELSE Undefined
    IN  WalkKeys(root, SplitDots(key), key)

\* What assigning a translate() result to textContent shows.
TextContent(value) == IF value.t = "str" THEN value.v ELSE <<"[object Object]">>

\* I18n.applyTranslations: every tagged element and the document language.
applyTranslations(i) ==
    [ text     |-> [k \in TaggedKeys |-> TextContent(translate(i, k))],
      htmlLang |-> i.currentLang ]

\* I18n.updateLangButtons: classList.toggle('active', lang === currentLang).
updateLangButtons(i) == [btn \in Langs |-> (btn = i.currentLang)]

\* The page chrome as the static markup ships it: default text, English active.
MarkupChrome ==
    [ text     |-> [k \in TaggedKeys |-> <<"markup">>],
      htmlLang |-> "markup",
      langBtn  |-> [btn \in Langs |-> (btn = "en")] ]

\* Mutant: the observers are called last-registered first.
notifyObserversReversed(i) ==
    [n \in 1..Len(i.observers) |->
        [ who |-> i.observers[Len(i.observers) + 1 - n], lang |-> i.currentLang ]]

\* I18n.notifyObservers: observers.forEach(callback => callback(currentLang)).
notifyObservers(i) ==
    [n \in 1..Len(i.observers) |-> [ who |-> i.observers[n], lang |-> i.currentLang ]]

\* ------------------------------------------------------------ ThemeManager
\* this.presets, in the order Object.entries() walks it.
Presets ==
    << [ key |-> "academic", hue |-> 220 ], [ key |-> "forest",   hue |-> 150 ],
       [ key |-> "sunset",   hue |-> 25 ],  [ key |-> "lavender", hue |-> 270 ],
       [ key |-> "rose",     hue |-> 350 ], [ key |-> "ocean",    hue |-> 195 ],
       [ key |-> "gold",     hue |-> 45 ],  [ key |-> "slate",    hue |-> 215 ] >>

\* The hue of `parseInt(...) || 220` and of the reset button.
DefaultHue == 220

DecDigits == << "0", "1", "2", "3", "4", "5", "6", "7", "8", "9" >>
HexDigits == DecDigits \o << "a", "b", "c", "d", "e", "f" >>

\* Value of digit character c in the digit string `digits`.
DigitVal(digits, c) == (CHOOSE i \in 1..Len(digits) : digits[i] = c) - 1
IsDigit(digits, c) == \E i \in 1..Len(digits) : digits[i] = c

\* localStorage.getItem() of a key that was never set: null, which
\* parseInt() reads through String(null).
NullItem == << "n", "u", "l", "l" >>

\* String(n) of an integer, as localStorage.setItem() stores it.
RECURSIVE DecimalOfNat(_)
DecimalOfNat(n) ==
    IF n < 10 THEN << DecDigits[n + 1] >>
    ELSE DecimalOfNat(n \div 10) \o << DecDigits[(n % 10) + 1] >>

ToDecimal(n) == IF n < 0 THEN << "-" >> \o DecimalOfNat(0 - n) ELSE DecimalOfNat(n)

\* Value of the leading run of decimal digits of s, continuing from acc.
RECURSIVE DigitRun(_, _)
DigitRun(s, acc) ==
    IF s = << >> \/ ~IsDigit(DecDigits, Head(s)) THEN acc
    ELSE DigitRun(Tail(s), 10 * acc + DigitVal(DecDigits, Head(s)))

\* parseInt(s): an optional sign, then the leading run of digits; NaN when
\* there is no digit there.
parseInt(s) ==
    LET signed == s # << >> /\ Head(s) \in { "-", "+" }
        body   == IF signed THEN Tail(s) ELSE s
    IN  IF body = << >> \/ ~IsDigit(DecDigits, Head(body))
        THEN [ nan |-> TRUE, n |-> 0 ]
        ELSE [ nan |-> FALSE,
               n   |-> IF signed /\ Head(s) = "-"
                       THEN 0 - DigitRun(body, 0) ELSE DigitRun(body, 0) ]

\* ThemeManager.constructor: parseInt(localStorage.getItem('themeHue')) || 220.
StoredHue(item) ==
    LET parsed == parseInt(item)
    IN  IF parsed.nan \/ parsed.n = 0 THEN DefaultHue ELSE parsed.n

\* JavaScript's % on integers: the result takes the sign of the dividend.
JsRem(x, m) == IF x >= 0 THEN x % m ELSE 0 - ((0 - x) % m)

Min2(a, b) == IF a <= b THEN a ELSE b
Max2(a, b) == IF a >= b THEN a ELSE b

\* Number.toString(16).padStart(2, '0') of a channel value 0..255.
Hex2(v) == << HexDigits[(v \div 16) + 1], HexDigits[(v % 16) + 1] >>

\* parseInt(two hex digits, 16)
ParseHex2(s) == 16 * DigitVal(HexDigits, s[1]) + DigitVal(HexDigits, s[2])

\* f(n) of hslToHex for integer h, s, l, in exact arithmetic: k is kept in
\* thirtieths (k30 = 30 * k), and Math.round(x) is floor(x + 1/2).
HslChannel(h, s, l, n) ==
    LET k30 == JsRem(30 * n + h, 360)
        m30 == Max2(Min2(Min2(k30 - 90, 270 - k30), 30), -30)
        mn  == Min2(l, 100 - l)
    IN  (510 * (3000 * l - s * mn * m30) + 300000) \div 600000

\* ThemeManager.hslToHex(h, s, l): '#' and the red, green and blue channels.
hslToHex(h, s, l) ==
    << "#" >> \o Hex2(HslChannel(h, s, l, 0)) \o Hex2(HslChannel(h, s, l, 8))
              \o Hex2(HslChannel(h, s, l, 4))

\* Math.round(num / den) for num >= 0, den > 0.
RoundDiv(num, den) == (2 * num + den) \div (2 * den)

\* Mutant: the red case without the `(g < b ? 6 : 0)` term, so hues on the
\* blue side of red come out negative.
hexToHslNoWrap(hex) ==
    LET r   == ParseHex2(SubSeq(hex, 2, 3))
        g   == ParseHex2(SubSeq(hex, 4, 5))
        b   == ParseHex2(SubSeq(hex, 6, 7))
        max == Max2(Max2(r, g), b)
        min == Min2(Min2(r, g), b)
        d   == max - min
        sum == max + min
        h60 == IF max = r THEN 60 * (g - b)
               ELSE IF max = g THEN 60 * (b - r) + 120 * d
               ELSE 60 * (r - g) + 240 * d
    IN  [ h |-> IF max = min THEN 0 ELSE (2 * h60 + d) \div (2 * d),
          s |-> IF max = min THEN 0
                ELSE IF sum > 255 THEN RoundDiv(100 * d, 510 - sum)
                ELSE RoundDiv(100 * d, sum),
          l |-> RoundDiv(100 * sum, 510) ]

\* ThemeManager.hexToHsl(hex), in exact arithmetic on the 8-bit channels: the
\* divisions by 255 cancel in every quotient. `switch (max)` takes the first
\* matching case, red before green before blue.
hexToHsl(hex) ==
    LET r   == ParseHex2(SubSeq(hex, 2, 3))
        g   == ParseHex2(SubSeq(hex, 4, 5))
        b   == ParseHex2(SubSeq(hex, 6, 7))
        max == Max2(Max2(r, g), b)
        min == Min2(Min2(r, g), b)
        d   == max - min
        sum == max + min
        h60 == IF max = r THEN 60 * (g - b) + (IF g < b THEN 360 * d ELSE 0)
               ELSE IF max = g THEN 60 * (b - r) + 120 * d
               ELSE 60 * (r - g) + 240 * d
    IN  [ h |-> IF max = min THEN 0 ELSE RoundDiv(h60, d),
          s |-> IF max = min THEN 0
                ELSE IF sum > 255 THEN RoundDiv(100 * d, 510 - sum)
                ELSE RoundDiv(100 * d, sum),
          l |-> RoundDiv(100 * sum, 510) ]

\* Colours the user picks in the #colorPicker input: pure red, the red next
\* to it on the blue side, a grey, a blue with hue 210, and the colour the
\* picker shows for the gold preset.
PickerInputs ==
    { << "#", "f", "f", "0", "0", "0", "0" >>,
      << "#", "f", "f", "0", "0", "0", "1" >>,
      << "#", "8", "0", "8", "0", "8", "0" >>,
      << "#", "3", "3", "6", "6", "9", "9" >>,
      << "#", "d", "9", "a", "c", "2", "6" >> }

\* Mutant: the preset buttons are left as they are.
updatePresetIndicatorsStale(buttons, hue) == buttons

\* ThemeManager.updatePresetIndicators: toggle 'active' on every .theme-preset
\* button by `preset.hue === this.currentHue`.
updatePresetIndicators(buttons, hue) ==
    [ n \in 1..Len(buttons) |->
        [ buttons[n] EXCEPT
            !.active = \E p \in 1..Len(Presets) :
                          Presets[p].key = buttons[n].preset /\ Presets[p].hue = hue ] ]

\* ThemeManager.applyTheme(hue) on theme t: the field, the CSS variable, the
\* preset indicators and the picker. The stored item is written by the caller.
applyTheme(t, hue) ==
    [ currentHue  |-> hue,
      primaryHue  |-> hue,
      buttons     |-> updatePresetIndicators(t.buttons, hue),
      colorPicker |-> hslToHex(hue, 70, 50) ]

\* ThemeManager.renderPresets: one button per preset, 'active' on the one whose
\* hue is the current hue.
renderPresets(t) ==
    [ t EXCEPT !.buttons =
        [ n \in 1..Len(Presets) |->
            [ preset |-> Presets[n].key, active |-> (Presets[n].hue = t.currentHue) ] ] ]

\* new ThemeManager() and, on DOMContentLoaded, init(): applyTheme(currentHue),
\* setupEventListeners(), renderPresets(). `item` is the stored 'themeHue'.
LoadTheme(item) ==
    LET constructed == [ currentHue  |-> StoredHue(item),
                         primaryHue  |-> StoredHue(item),
                         buttons     |-> << >>,
                         colorPicker |-> << >> ]
    IN  renderPresets(applyTheme(constructed, constructed.currentHue))

\* --------------------------------------------------------- ResearchManager
\* Number of items in the longest list of the served research document.
MaxItems == 2

\* The three containers, in the order render() fills them, with the field of
\* the document each one shows and its status type.
ResearchLists ==
    << [ container |-> "publicationsList",    field |-> "publications",
         statusType |-> "published" ],
       [ container |-> "workingPapersList",   field |-> "working_papers",
         statusType |-> "working" ],
       [ container |-> "worksInProgressList", field |-> "works_in_progress",
         statusType |-> "progress" ] >>

Containers == { ResearchLists[n].container : n \in 1..Len(ResearchLists) }

\* this.data of the constructor: three empty lists.
NewResearchManager ==
    [ data |-> [ publications |-> << >>, working_papers |-> << >>,
                 works_in_progress |-> << >> ] ]

\* data/research.json as served: MaxItems publications, one working paper,
\* no work in progress.
ResearchDoc ==
    [ publications      |-> [ n \in 1..MaxItems |-> [ id |-> n ] ],
      working_papers    |-> << [ id |-> MaxItems + 1 ] >>,
      works_in_progress |-> << >> ]

\* readMoreLabel / showLessLabel of createResearchCard.
readMoreLabel(lang) == IF lang = "pt" THEN "Ler Mais" ELSE "Read More"
showLessLabel(lang) == IF lang = "pt" THEN "Mostrar Menos" ELSE "Show Less"

\* Mutant: the card's labels are always the English ones.
createResearchCardEnglish(item, lang) ==
    [ id       |-> item.id,
      expanded |-> FALSE,
      label    |-> readMoreLabel("en"),
      readMore |-> readMoreLabel("en"),
      showLess |-> showLessLabel("en"),
      handlers |-> 0 ]

\* ResearchManager.createResearchCard: the abstract without the 'expanded'
\* class, the toggle button with its text and its two data- labels, and so
\* far no click listener on it.
createResearchCard(item, lang) ==
    [ id       |-> item.id,
      expanded |-> FALSE,
      label    |-> readMoreLabel(lang),
      readMore |-> readMoreLabel(lang),
      showLess |-> showLessLabel(lang),
      handlers |-> 0 ]

\* Mutant: every toggle button gets two click listeners.
setupAbstractTogglesTwice(cards) ==
    [ n \in 1..Len(cards) |-> [ cards[n] EXCEPT !.handlers = @ + 2 ] ]

\* ResearchManager.setupAbstractToggles: one click listener more on every
\* .abstract-toggle of the container.
setupAbstractToggles(cards) ==
    [ n \in 1..Len(cards) |-> [ cards[n] EXCEPT !.handlers = @ + 1 ] ]

\* ResearchManager.renderList: the empty-state message, or the cards with
\* their toggles set up.
renderList(items, lang) ==
    IF items = << >>
    THEN [ kind |-> "empty", lang |-> lang, cards |-> << >> ]
    ELSE [ kind  |-> "cards", lang |-> lang,
           cards |-> setupAbstractToggles(
                       [ n \in 1..Len(items) |-> createResearchCard(items[n], lang) ]) ]

\* ResearchManager.render for manager r, with getCurrentLang() = lang.
renderResearch(r, lang) ==
    [ lang  |-> lang,
      lists |-> [ c \in Containers |->
                    LET l == CHOOSE n \in 1..Len(ResearchLists) :
                                 ResearchLists[n].container = c
                    IN  renderList(r.data[ResearchLists[l].field], lang) ] ]

\* The three containers as the static markup ships them.
MarkupResearch ==
    [ lang  |-> "markup",
      lists |-> [ c \in Containers |->
                    [ kind |-> "markup", lang |-> "markup", cards |-> << >> ] ] ]

\* One run of the toggle's click listener on a card: classList.toggle on the
\* abstract, and the button text from the state found.
ToggleOnce(card) ==
    [ card EXCEPT !.expanded = ~card.expanded,
                  !.label = IF card.expanded THEN card.readMore ELSE card.showLess ]

\* A click on the toggle runs every listener attached to it.
RECURSIVE Dispatch(_, _)
Dispatch(card, listeners) ==
    IF listeners = 0 THEN card ELSE Dispatch(ToggleOnce(card), listeners - 1)

\* ----------------------------------------------------------- ConfigManager
\* Platforms named by the data-social links of the page, and by its
\* data-social-text footer links.
SocialTagged == { "github", "linkedin", "twitter" }
SocialTextTagged == { "github", "twitter" }

\* A section of config.json that the document does not have.
Absent ==
    [ present |-> FALSE, urls |-> [ p \in {} |-> "" ], name |-> "", pdfPath |-> "" ]
Social(urls) == [ Absent EXCEPT !.present = TRUE, !.urls = urls ]
Profile(name) == [ Absent EXCEPT !.present = TRUE, !.name = name ]
Cv(pdfPath) == [ Absent EXCEPT !.present = TRUE, !.pdfPath = pdfPath ]

\* this.config = null of the constructor.
NullConfig == [ isNull |-> TRUE, social |-> Absent, profile |-> Absent, cv |-> Absent ]

MkConfig(social, profile, cv) ==
    [ isNull |-> FALSE, social |-> social, profile |-> profile, cv |-> cv ]

\* URLs of the served social section: none for twitter.
SocialUrls == ("github" :> "gh-url") @@ ("linkedin" :> "li-url")

\* Documents data/config.json may hold: every section; no cv; a cv without a
\* profile section; no social section; an empty URL for twitter.
ConfigDocs ==
    { MkConfig(Social(SocialUrls), Profile("Name"), Cv("cv.pdf")),
      MkConfig(Social(SocialUrls), Profile("Name"), Absent),
      MkConfig(Social(SocialUrls), Absent, Cv("cv.pdf")),
      MkConfig(Absent, Profile("Name"), Cv("cv.pdf")),
      MkConfig(Social(SocialUrls @@ ("twitter" :> "")), Profile("Name"), Cv("")) }

\* The tagged elements as the static markup ships them: placeholder hrefs
\* and the default name.
MarkupConfig ==
    [ social     |-> [ p \in SocialTagged |-> "#" ],
      socialText |-> [ p \in SocialTextTagged |-> "#" ],
      name       |-> "markup",
      cv         |-> "#" ]

\* this.config.social[platform], "" standing for every falsy value.
SocialUrl(config, platform) ==
    IF platform \in DOMAIN config.social.urls
    THEN config.social.urls[platform] ELSE ""

\* ConfigManager.applySocialLinks on the tagged elements dom.
applySocialLinks(dom, config) ==
    IF ~config.social.present THEN dom
    ELSE [ dom EXCEPT
             !.social = [ p \in SocialTagged |->
                            IF SocialUrl(config, p) # "" THEN SocialUrl(config, p)
                            ELSE dom.social[p] ],
             !.socialText = [ p \in SocialTextTagged |->
                            IF SocialUrl(config, p) # "" THEN SocialUrl(config, p)
                            ELSE dom.socialText[p] ] ]

\* ConfigManager.applyProfileInfo on the tagged elements dom.
applyProfileInfo(dom, config) ==
    IF ~config.profile.present THEN dom
    ELSE [ dom EXCEPT
             !.name = config.profile.name,
             !.cv = IF config.cv.present /\ config.cv.pdfPath # ""
                    THEN config.cv.pdfPath ELSE dom.cv ]

\* new ConfigManager(), with the fetch that init() issues on DOMContentLoaded.
NewConfigManager == [ config |-> NullConfig, fetches |-> 1 ]

\* ------------------------------------------------------------------- state
VARIABLES
    doc,            \* data/blog-posts.json as served
    localStorage,   \* persisted browser state: the 'language' and 'themeHue' items
    i18n,           \* the I18n singleton: currentLang, translations, observers
    i18nInit,       \* I18n.init(): "pending", "loaded" or "failed"
    chrome,         \* tagged elements' text, <html lang>, language buttons
    blogManager,    \* the BlogManager instance
    blogInit,       \* BlogManager.init(): "pending", "loaded" or "failed"
    blogDom,        \* blogGrid, categoryList, tagCloud, blogPagination
    blogSearch,     \* value of the #blogSearch input
    timeout,        \* debounce timer: -1 when none is pending, else ms left
    researchInit,   \* ResearchManager.init(): "pending", "loaded" or "failed"
    researchManager, \* the ResearchManager instance: its data
    researchDom,    \* the three research lists as last rendered, and in which language
    configManager,  \* the ConfigManager instance: config, fetches issued
    configInit,     \* ConfigManager.init(): "pending", "loaded" or "failed"
    configDom,      \* hrefs of the tagged links, text of the profile-name elements
    theme,          \* the ThemeManager: hue, CSS variable, preset buttons, picker
    tabs,           \* 'active' class of the research tabs and of their contents
    lastOp          \* the handler that ran last and what it did

vars == << doc, localStorage, i18n, i18nInit, chrome, blogManager, blogInit,
           blogDom, blogSearch, timeout, researchManager, researchInit,
           researchDom, configManager, configInit, configDom, theme, tabs, lastOp >>

i18nVars == << localStorage, i18n, i18nInit, chrome >>
blogVars == << blogManager, blogInit, blogDom >>
searchVars == << blogSearch, timeout >>
researchVars == << researchManager, researchInit, researchDom >>
configVars == << configManager, configInit, configDom >>
widgetVars == << theme, tabs, configVars >>

\* Record of one handler run: its name, the code passed to setLanguage (or
\* the tag, tab or container clicked), the observer calls made, the number of
\* BlogManager.render() calls, whether it scrolled the window to the top, (for
\* a filter change) the page number it found, (for a tag click) the tag filter
\* it found, and (for a click on a card) the position of the card.
Op(name) ==
    [ op |-> name, code |-> "", notified |-> << >>, renders |-> 0,
      scrollTop |-> FALSE, fromPage |-> 0, fromTag |-> NoTag, item |-> 0 ]

\* I18n.constructor: localStorage.getItem('language') || 'en'.
NewI18n(stored) ==
    [ currentLang  |-> IF stored = NoItem \/ stored = "" THEN "en" ELSE stored,
      translations |-> NoTranslations,
      observers    |-> << >> ]

\* I18n.getLanguage / BlogManager.getCurrentLang.
getCurrentLang == i18n.currentLang

\* The research tabs, in document order; each tab's data-tab is the id of its
\* tab content.
TabIds == << "publications", "working-papers", "works-in-progress" >>
TabSet == { TabIds[n] : n \in 1..Len(TabIds) }

\* The research tabs as the static markup ships them: the first one active.
MarkupTabs ==
    [ tab     |-> [ t \in TabSet |-> (t = TabIds[1]) ],
      content |-> [ c \in TabSet |-> (c = TabIds[1]) ] ]

\* The page once its scripts have run and DOMContentLoaded has been handled,
\* with `stored` in localStorage before the load: the singletons constructed,
\* ThemeManager.init() done, the three fetches pending.
Fresh(stored) ==
    [ localStorage |-> [ stored EXCEPT !.themeHue = ToDecimal(StoredHue(@)) ],
      i18n         |-> NewI18n(stored.language),
      i18nInit     |-> "pending",
      chrome       |-> MarkupChrome,
      blogManager  |-> NewBlogManager,
      blogInit     |-> "pending",
      blogDom      |-> MarkupBlog,
      blogSearch   |-> << >>,
      timeout      |-> -1,
      researchManager |-> NewResearchManager,
      researchInit |-> "pending",
      researchDom  |-> MarkupResearch,
      configManager |-> NewConfigManager,
      configInit   |-> "pending",
      configDom    |-> MarkupConfig,
      theme        |-> LoadTheme(stored.themeHue),
      tabs         |-> MarkupTabs ]

\* The variables hold the freshly loaded page.
Loaded(stored) ==
    /\ localStorage = Fresh(stored).localStorage
    /\ i18n = Fresh(stored).i18n
    /\ i18nInit = Fresh(stored).i18nInit
    /\ chrome = Fresh(stored).chrome
    /\ blogManager = Fresh(stored).blogManager
    /\ blogInit = Fresh(stored).blogInit
    /\ blogDom = Fresh(stored).blogDom
    /\ blogSearch = Fresh(stored).blogSearch
    /\ timeout = Fresh(stored).timeout
    /\ researchManager = Fresh(stored).researchManager
    /\ researchInit = Fresh(stored).researchInit
    /\ configManager = Fresh(stored).configManager
    /\ configInit = Fresh(stored).configInit
    /\ configDom = Fresh(stored).configDom
    /\ researchDom = Fresh(stored).researchDom
    /\ theme = Fresh(stored).theme
    /\ tabs = Fresh(stored).tabs

\* First visit, or a return visit with a language chosen earlier; no theme
\* hue was stored.
Init ==
    /\ doc \in { MkDoc(n) : n \in DocSizes }
    /\ \E l \in {NoItem} \cup Langs : Loaded([ language |-> l, themeHue |-> NullItem ])
    /\ lastOp = Op("load")

\* ------------------------------------------------------------ I18n actions
\* applyTranslations() followed by updateLangButtons() for store i.
Sweep(i) ==
    [ text     |-> applyTranslations(i).text,
      htmlLang |-> applyTranslations(i).htmlLang,
      langBtn  |-> updateLangButtons(i) ]

\* Mutant: the translations are stored but the page is not swept.
I18nInitOkNoSweep ==
    /\ i18nInit = "pending"
    /\ i18nInit' = "loaded"
    /\ i18n' = [i18n EXCEPT !.translations = TranslationsDoc]
    /\ lastOp' = Op("i18nInit")
    /\ UNCHANGED << doc, widgetVars, localStorage, chrome, blogVars, searchVars, researchVars >>

\* I18n.init, fetch and parse succeeded.
I18nInitOk ==
    /\ i18nInit = "pending"
    /\ i18nInit' = "loaded"
    /\ i18n' = [i18n EXCEPT !.translations = TranslationsDoc]
    /\ chrome' = Sweep(i18n')
    /\ lastOp' = Op("i18nInit")
    /\ UNCHANGED << doc, widgetVars, localStorage, blogVars, searchVars, researchVars >>

\* I18n.init, fetch or parse failed: the catch block only logs.
I18nInitFail ==
    /\ i18nInit = "pending"
    /\ i18nInit' = "failed"
    /\ lastOp' = Op("i18nInitFail")
    /\ UNCHANGED << doc, widgetVars, localStorage, i18n, chrome, blogVars, searchVars, researchVars >>

\* I18n.subscribe(callback)
subscribe(i, who) == [i EXCEPT !.observers = Append(@, who)]

\* Mutant: setLanguage without the check of the code.
setLanguageUnchecked(lang) ==
    LET i2    == [i18n EXCEPT !.currentLang = lang]
        calls == notifyObservers(i2)
        Blog(n)     == calls[n].who = "blog"
        Research(n) == calls[n].who = "research"
    IN  /\ i18n' = i2
        /\ localStorage' = [localStorage EXCEPT !.language = lang]
        /\ chrome' = Sweep(i2)
        /\ blogDom' = IF \E n \in 1..Len(calls) : Blog(n)
                      THEN render(blogManager, i2.currentLang) ELSE blogDom
        /\ researchDom' = IF \E n \in 1..Len(calls) : Research(n)
                          THEN renderResearch(researchManager, i2.currentLang)
                          ELSE researchDom
        /\ lastOp' = [Op("setLanguage") EXCEPT
                        !.code = lang,
                        !.notified = calls,
                        !.renders = Cardinality({ n \in 1..Len(calls) : Blog(n) })]
        /\ UNCHANGED << doc, widgetVars, i18nInit, blogManager, blogInit, searchVars,
                        researchManager, researchInit >>

\* I18n.setLanguage(lang), with the callbacks of the subscribed managers.
setLanguage(lang) ==
    IF lang # "en" /\ lang # "pt"
    THEN /\ lastOp' = [Op("setLanguage") EXCEPT !.code = lang]
         /\ UNCHANGED << doc, widgetVars, i18nVars, blogVars, searchVars, researchVars >>
    ELSE LET i2    == [i18n EXCEPT !.currentLang = lang]
             calls == notifyObservers(i2)
             Blog(n)     == calls[n].who = "blog"
             Research(n) == calls[n].who = "research"
         IN  /\ i18n' = i2
             /\ localStorage' = [localStorage EXCEPT !.language = lang]
             /\ chrome' = Sweep(i2)
             /\ blogDom' = IF \E n \in 1..Len(calls) : Blog(n)
                           THEN render(blogManager, i2.currentLang) ELSE blogDom
             /\ researchDom' = IF \E n \in 1..Len(calls) : Research(n)
                               THEN renderResearch(researchManager, i2.currentLang)
                          ELSE researchDom
             /\ lastOp' = [Op("setLanguage") EXCEPT
                             !.code = lang,
                             !.notified = calls,
                             !.renders = Cardinality({ n \in 1..Len(calls) : Blog(n) })]
             /\ UNCHANGED << doc, widgetVars, i18nInit, blogManager, blogInit, searchVars,
                             researchManager, researchInit >>

\* -------------------------------------------------------- research actions
\* ResearchManager.init, success: render, then subscribe to language changes.
ResearchInitOk ==
    /\ researchInit = "pending"
    /\ researchInit' = "loaded"
    /\ researchManager' = [researchManager EXCEPT !.data = ResearchDoc]
    /\ researchDom' = renderResearch(researchManager', getCurrentLang)
    /\ i18n' = subscribe(i18n, "research")
    /\ lastOp' = Op("researchInit")
    /\ UNCHANGED << doc, widgetVars, localStorage, i18nInit, chrome, blogVars, searchVars >>

\* ResearchManager.init, failure: the catch block only logs.
ResearchInitFail ==
    /\ researchInit = "pending"
    /\ researchInit' = "failed"
    /\ lastOp' = Op("researchInitFail")
    /\ UNCHANGED << doc, widgetVars, i18nVars, blogVars, searchVars, researchManager,
                    researchDom >>

\* ------------------------------------------------------------ blog actions
\* BlogManager.init, success: keep the published posts, render, attach the
\* listeners and subscribe to language changes.
BlogInitOk ==
    /\ blogInit = "pending"
    /\ blogInit' = "loaded"
    /\ blogManager' = [blogManager EXCEPT !.posts = PublishedOnly(doc.posts),
                                          !.categories = doc.categories]
    /\ blogDom' = render(blogManager', getCurrentLang)
    /\ i18n' = subscribe(i18n, "blog")
    /\ lastOp' = [Op("blogInit") EXCEPT !.renders = 1]
    /\ UNCHANGED << doc, widgetVars, localStorage, i18nInit, chrome, searchVars, researchVars >>

\* Mutant: the failure message is always rendered in English.
BlogInitFailEnglish ==
    /\ blogInit = "pending"
    /\ blogInit' = "failed"
    /\ blogDom' = [blogDom EXCEPT !.blogGrid = renderEmpty("en")]
    /\ lastOp' = Op("blogInitFail")
    /\ UNCHANGED << doc, widgetVars, i18nVars, blogManager, searchVars, researchVars >>

\* BlogManager.init, failure: log and renderEmpty(); no listener, no subscription.
BlogInitFail ==
    /\ blogInit = "pending"
    /\ blogInit' = "failed"
    /\ blogDom' = [blogDom EXCEPT !.blogGrid = renderEmpty(getCurrentLang)]
    /\ lastOp' = Op("blogInitFail")
    /\ UNCHANGED << doc, widgetVars, i18nVars, blogManager, searchVars, researchVars >>

\* Mutant: the category handler leaves currentTag alone.
CategoryClickKeepsTag(n) ==
    /\ blogInit = "loaded"
    /\ n \in 1..Len(blogDom.categoryList)
    /\ blogManager' = [blogManager EXCEPT
                         !.currentCategory = blogDom.categoryList[n].key,
                         !.currentPage = 1]
    /\ blogDom' = render(blogManager', getCurrentLang)
    /\ lastOp' = [Op("category") EXCEPT !.renders = 1,
                                        !.fromPage = blogManager.currentPage]
    /\ UNCHANGED << doc, widgetVars, i18nVars, blogInit, searchVars, researchVars >>

\* Click on a .category-item of the rendered category list.
CategoryClick(n) ==
    /\ blogInit = "loaded"
    /\ n \in 1..Len(blogDom.categoryList)
    /\ blogManager' = [blogManager EXCEPT
                         !.currentCategory = blogDom.categoryList[n].key,
                         !.currentTag = NoTag,
                         !.currentPage = 1]
    /\ blogDom' = render(blogManager', getCurrentLang)
    /\ lastOp' = [Op("category") EXCEPT !.renders = 1,
                                        !.fromPage = blogManager.currentPage]
    /\ UNCHANGED << doc, widgetVars, i18nVars, blogInit, searchVars, researchVars >>

\* Mutant: the tag handler does not reset currentPage.
TagClickKeepsPage(n) ==
    /\ blogInit = "loaded"
    /\ n \in 1..Len(blogDom.tagCloud)
    /\ LET tag == blogDom.tagCloud[n].tag
       IN  blogManager' = [blogManager EXCEPT
                             !.currentTag = IF @ = tag THEN NoTag ELSE tag]
    /\ blogDom' = render(blogManager', getCurrentLang)
    /\ lastOp' = [Op("tag") EXCEPT !.renders = 1,
                                   !.code = blogDom.tagCloud[n].tag,
                                   !.fromPage = blogManager.currentPage,
                                   !.fromTag = blogManager.currentTag]
    /\ UNCHANGED << doc, widgetVars, i18nVars, blogInit, searchVars, researchVars >>

\* Mutant: a tag click always selects the clicked tag, never deselects it.
TagClickSelectOnly(n) ==
    /\ blogInit = "loaded"
    /\ n \in 1..Len(blogDom.tagCloud)
    /\ blogManager' = [blogManager EXCEPT
                         !.currentTag = blogDom.tagCloud[n].tag,
                         !.currentPage = 1]
    /\ blogDom' = render(blogManager', getCurrentLang)
    /\ lastOp' = [Op("tag") EXCEPT !.renders = 1,
                                   !.code = blogDom.tagCloud[n].tag,
                                   !.fromPage = blogManager.currentPage,
                                   !.fromTag = blogManager.currentTag]
    /\ UNCHANGED << doc, widgetVars, i18nVars, blogInit, searchVars, researchVars >>

\* Click on a .tag element (tag cloud or card): toggles the tag filter.
TagClick(n) ==
    /\ blogInit = "loaded"
    /\ n \in 1..Len(blogDom.tagCloud)
    /\ LET tag == blogDom.tagCloud[n].tag
       IN  blogManager' = [blogManager EXCEPT
                             !.currentTag = IF @ = tag THEN NoTag ELSE tag,
                             !.currentPage = 1]
    /\ blogDom' = render(blogManager', getCurrentLang)
    /\ lastOp' = [Op("tag") EXCEPT !.renders = 1,
                                   !.code = blogDom.tagCloud[n].tag,
                                   !.fromPage = blogManager.currentPage,
                                   !.fromTag = blogManager.currentTag]
    /\ UNCHANGED << doc, widgetVars, i18nVars, blogInit, searchVars, researchVars >>

\* Mutant: the input listener is the handler itself, not its debounced wrapper.
SearchInputUndebounced(value) ==
    /\ blogSearch' = value
    /\ IF blogInit = "loaded"
       THEN /\ blogManager' = [blogManager EXCEPT !.searchQuery = value,
                                                  !.currentPage = 1]
            /\ blogDom' = render(blogManager', getCurrentLang)
            /\ lastOp' = [Op("input") EXCEPT !.renders = 1]
       ELSE /\ lastOp' = Op("input")
            /\ UNCHANGED << blogManager, blogDom >>
    /\ UNCHANGED << doc, widgetVars, i18nVars, blogInit, timeout, researchVars >>

\* The wrapper returned by debounce(func, 300), run on an 'input' event whose
\* target holds `value`: clearTimeout, then setTimeout(later, wait). Before
\* init() succeeds no listener is attached and only the input's value changes.
SearchInput(value) ==
    /\ blogSearch' = value
    /\ timeout' = IF blogInit = "loaded" THEN DebounceWait ELSE timeout
    /\ lastOp' = Op("input")
    /\ UNCHANGED << doc, widgetVars, i18nVars, blogVars, researchVars >>

\* 150 ms pass while a debounce timer is pending and not yet due.
Tick ==
    /\ timeout > 0
    /\ timeout' = timeout - 150
    /\ lastOp' = Op("tick")
    /\ UNCHANGED << doc, widgetVars, i18nVars, blogVars, blogSearch, researchVars >>

\* `later` of debounce: the timer fires and runs the search handler, which
\* reads e.target.value.
SearchFire ==
    /\ timeout = 0
    /\ timeout' = -1
    /\ blogManager' = [blogManager EXCEPT !.searchQuery = blogSearch,
                                          !.currentPage = 1]
    /\ blogDom' = render(blogManager', getCurrentLang)
    /\ lastOp' = [Op("search") EXCEPT !.renders = 1,
                                      !.fromPage = blogManager.currentPage]
    /\ UNCHANGED << doc, widgetVars, i18nVars, blogInit, blogSearch, researchVars >>

\* Click on the n-th .pagination-btn of the rendered pagination control.
PaginationClick(n) ==
    /\ blogInit = "loaded"
    /\ n \in 1..Len(blogDom.blogPagination)
    /\ LET btn == blogDom.blogPagination[n]
       IN  IF btn.disabled
           THEN /\ lastOp' = Op("pageDisabled")
                /\ UNCHANGED << blogManager, blogDom >>
           ELSE /\ btn.page <= MaxPage
                /\ blogManager' = [blogManager EXCEPT !.currentPage = btn.page]
                /\ blogDom' = render(blogManager', getCurrentLang)
                /\ lastOp' = [Op("page") EXCEPT !.renders = 1, !.scrollTop = TRUE]
    /\ UNCHANGED << doc, widgetVars, i18nVars, blogInit, searchVars, researchVars >>

\* ----------------------------------------------------------- theme actions
\* this.presets[presetName]
PresetOf(key) == Presets[CHOOSE p \in 1..Len(Presets) : Presets[p].key = key]

\* Click on the n-th .theme-preset button: setPreset(key), applyTheme(hue).
PresetClick(n) ==
    /\ n \in 1..Len(theme.buttons)
    /\ LET hue == PresetOf(theme.buttons[n].preset).hue
       IN  /\ theme' = applyTheme(theme, hue)
           /\ localStorage' = [localStorage EXCEPT !.themeHue = ToDecimal(hue)]
    /\ lastOp' = Op("preset")
    /\ UNCHANGED << doc, tabs, configVars, i18n, i18nInit, chrome, blogVars,
                    searchVars, researchVars >>

\* 'input' event of #colorPicker with the colour `hex` picked:
\* applyTheme(hexToHsl(e.target.value).h).
PickerInput(hex) ==
    /\ LET hue == hexToHsl(hex).h
       IN  /\ theme' = applyTheme([theme EXCEPT !.colorPicker = hex], hue)
           /\ localStorage' = [localStorage EXCEPT !.themeHue = ToDecimal(hue)]
    /\ lastOp' = Op("picker")
    /\ UNCHANGED << doc, tabs, configVars, i18n, i18nInit, chrome, blogVars,
                    searchVars, researchVars >>

\* Click on #themeReset: applyTheme(220).
ThemeReset ==
    /\ theme' = applyTheme(theme, DefaultHue)
    /\ localStorage' = [localStorage EXCEPT !.themeHue = ToDecimal(DefaultHue)]
    /\ lastOp' = Op("reset")
    /\ UNCHANGED << doc, tabs, configVars, i18n, i18nInit, chrome, blogVars,
                    searchVars, researchVars >>

\* The page is loaded again: every script runs anew against what localStorage
\* holds, and DOMContentLoaded is handled.
Reload ==
    /\ localStorage' = Fresh(localStorage).localStorage
    /\ i18n' = Fresh(localStorage).i18n
    /\ i18nInit' = Fresh(localStorage).i18nInit
    /\ chrome' = Fresh(localStorage).chrome
    /\ blogManager' = Fresh(localStorage).blogManager
    /\ blogInit' = Fresh(localStorage).blogInit
    /\ blogDom' = Fresh(localStorage).blogDom
    /\ blogSearch' = Fresh(localStorage).blogSearch
    /\ timeout' = Fresh(localStorage).timeout
    /\ researchManager' = Fresh(localStorage).researchManager
    /\ researchInit' = Fresh(localStorage).researchInit
    /\ configManager' = Fresh(localStorage).configManager
    /\ configInit' = Fresh(localStorage).configInit
    /\ configDom' = Fresh(localStorage).configDom
    /\ researchDom' = Fresh(localStorage).researchDom
    /\ theme' = Fresh(localStorage).theme
    /\ tabs' = Fresh(localStorage).tabs
    /\ lastOp' = Op("reload")
    /\ UNCHANGED doc

\* Click on a research tab. setupTabs() attaches the listeners only once the
\* research data has loaded; before that, and after a failed load, the click
\* has no handler.
TabClick(t) ==
    /\ tabs' = IF researchInit = "loaded"
               THEN [ tab     |-> [ x \in TabSet |-> (x = t) ],
                      content |-> [ c \in TabSet |-> (c = t) ] ]
               ELSE tabs
    /\ lastOp' = [Op("tab") EXCEPT !.code = t]
    /\ UNCHANGED << doc, theme, configVars, i18nVars, blogVars, searchVars,
                    researchVars >>

\* Click on the toggle of the n-th card of container c: every click listener
\* of the button runs.
AbstractToggle(c, n) ==
    /\ n \in 1..Len(researchDom.lists[c].cards)
    /\ researchDom' = [researchDom EXCEPT
                         !.lists[c].cards[n] = Dispatch(@, @.handlers)]
    /\ lastOp' = [Op("abstract") EXCEPT !.code = c, !.item = n]
    /\ UNCHANGED << doc, widgetVars, i18nVars, blogVars, searchVars,
                    researchManager, researchInit >>

\* ---------------------------------------------------------- config actions
\* ConfigManager.init, fetch and parse succeeded with document d:
\* applySocialLinks(), then applyProfileInfo().
ConfigInitOk(d) ==
    /\ configInit = "pending"
    /\ configInit' = "loaded"
    /\ configManager' = [configManager EXCEPT !.config = d]
    /\ configDom' = applyProfileInfo(applySocialLinks(configDom, d), d)
    /\ lastOp' = Op("configInit")
    /\ UNCHANGED << doc, theme, tabs, i18nVars, blogVars, searchVars, researchVars >>

\* ConfigManager.init, fetch or parse failed: the catch block only logs.
ConfigInitFail ==
    /\ configInit = "pending"
    /\ configInit' = "failed"
    /\ lastOp' = Op("configInitFail")
    /\ UNCHANGED << doc, theme, tabs, configManager, configDom, i18nVars, blogVars,
                    searchVars, researchVars >>

\* ---------------------------------------------------------- specifications
\* The blog page: language switches, the blog data fetch and every blog
\* interaction. The translations and research fetches stay pending; nothing
\* the blog manager reads depends on them.
NextBlog ==
    \/ \E lang \in LangCodes : setLanguage(lang)
    \/ BlogInitOk
    \/ BlogInitFail
    \/ \E n \in 1..(Len(DocCategories.en) + 1) : CategoryClick(n)
    \/ \E n \in 1..MaxPosts : TagClick(n)
    \/ \E value \in SearchInputs : SearchInput(value)
    \/ Tick
    \/ SearchFire
    \/ \E n \in 1..(MaxPosts + 2) : PaginationClick(n)

SpecBlog == Init /\ [][NextBlog]_vars

\* What SearchFire does to the timer; no other step takes timeout from 0 to -1.
TimerRuns == timeout = 0 /\ timeout' = -1

\* The blog page on a running event loop: time passes while a timer is pending,
\* and a timer that is due has its callback run.
SpecBlogFair == SpecBlog /\ WF_vars(Tick) /\ WF_timeout(TimerRuns)

\* The Localization Store with its three fetches in every order: translations,
\* blog data and research data, and language switches between them.
NextI18n ==
    \/ I18nInitOk
    \/ I18nInitFail
    \/ \E lang \in LangCodes : setLanguage(lang)
    \/ ResearchInitOk
    \/ ResearchInitFail
    \/ BlogInitOk
    \/ BlogInitFail

SpecI18n == Init /\ [][NextI18n]_vars

\* Items localStorage may hold when the page loads: what an earlier visit
\* stored, and values it never wrote.
StoredLanguages == { NoItem, "en", "pt", "fr" }
StoredHues ==
    { NullItem, << "1", "5", "0" >>, << "0" >>, << "5", "0", "0" >>,
      << "-", "5" >>, << "a", "b", "c" >>, << "1", "2", "p", "x" >> }

\* A page load with anything in localStorage.
InitStored ==
    /\ doc = MkDoc(0)
    /\ \E l \in StoredLanguages, h \in StoredHues :
          Loaded([ language |-> l, themeHue |-> h ])
    /\ lastOp = Op("load")

\* The persisted preferences: theme controls, language buttons and reloads,
\* from any stored items.
NextTheme ==
    \/ \E n \in 1..Len(Presets) : PresetClick(n)
    \/ \E hex \in PickerInputs : PickerInput(hex)
    \/ ThemeReset
    \/ \E lang \in LangCodes : setLanguage(lang)
    \/ Reload

SpecTheme == InitStored /\ [][NextTheme]_vars

\* The research page: its fetch, the tabs and the language buttons.
NextResearch ==
    \/ ResearchInitOk
    \/ ResearchInitFail
    \/ \E t \in TabSet : TabClick(t)
    \/ \E lang \in LangCodes : setLanguage(lang)
    \/ \E c \in Containers, n \in 1..MaxItems : AbstractToggle(c, n)

SpecResearch == Init /\ [][NextResearch]_vars

\* The links and names every page takes from config.json: the config fetch,
\* next to the translations fetch and the language buttons of the same page.
NextConfig ==
    \/ \E d \in ConfigDocs : ConfigInitOk(d)
    \/ ConfigInitFail
    \/ I18nInitOk
    \/ I18nInitFail
    \/ \E lang \in LangCodes : setLanguage(lang)

SpecConfig == Init /\ [][NextConfig]_vars

\* ------------------------------------------------------------------ claims
\* The published posts of the served document, in document order.
PublishedOfDoc == { i \in 1..Len(doc.posts) : doc.posts[i].published }

\* C1: after any render of the blog listing, currentPage is within
\* [1, getTotalPages()], getTotalPages() being computed from the current
\* filtered result.
C1_PageWithinTotalPages ==
    blogInit = "loaded" =>
        /\ 1 <= blogManager.currentPage
        /\ blogManager.currentPage <= getTotalPages(blogManager, getCurrentLang)

\* C2: getFilteredPosts() returns only published posts, and no unpublished
\* post is counted in the category list, the tag cloud or the page count.
C2_OnlyPublished ==
    blogInit = "loaded" =>
        LET filtered == getFilteredPosts(blogManager, getCurrentLang)
            PubIn(key) == { i \in PublishedOfDoc :
                              key = "all" \/ doc.posts[i].category = key }
            cats  == blogDom.categoryList
            cloud == blogDom.tagCloud
            pages == { n \in 1..Len(blogDom.blogPagination) :
                         blogDom.blogPagination[n].kind = "num" }
        IN  /\ \A n \in 1..Len(filtered) :
                 \E i \in PublishedOfDoc : doc.posts[i] = filtered[n]
            /\ \A n \in 1..Len(blogDom.blogGrid.ids) :
                 \E i \in PublishedOfDoc : doc.posts[i].id = blogDom.blogGrid.ids[n]
            /\ \A n \in 1..Len(cats) : cats[n].count = Cardinality(PubIn(cats[n].key))
            /\ \A n \in 1..Len(cloud) :
                 \E i \in PublishedOfDoc : ArrIncludes(doc.posts[i].tags, cloud[n].tag)
            /\ Cardinality(pages) * postsPerPage < Cardinality(PublishedOfDoc) + postsPerPage

\* C2 witness: a loaded document with unpublished posts, filtered by the
\* category the unpublished posts belong to, with cards on screen.
C2_Witness ==
    /\ blogInit = "loaded"
    /\ blogDom.blogGrid.kind = "cards"
    /\ blogManager.currentCategory # "all"
    /\ \E i \in 1..Len(doc.posts) :
         /\ ~doc.posts[i].published
         /\ doc.posts[i].category = blogManager.currentCategory

\* The pages 1..n of getPaginatedPosts(), one after the other.
RECURSIVE PagesUpTo(_, _, _)
PagesUpTo(b, lang, n) ==
    IF n = 0 THEN << >>
    ELSE PagesUpTo(b, lang, n - 1)
         \o getPaginatedPosts([b EXCEPT !.currentPage = n], lang)

\* C3: getPaginatedPosts() returns at most 6 posts for any page, and the pages
\* 1..getTotalPages() concatenated in order equal getFilteredPosts().
C3_PagesPartitionFiltered ==
    blogInit = "loaded" =>
        LET total == getTotalPages(blogManager, getCurrentLang)
        IN  /\ \A n \in 1..(MaxPage + 1) :
                 Len(getPaginatedPosts([blogManager EXCEPT !.currentPage = n],
                                       getCurrentLang)) <= 6
            /\ PagesUpTo(blogManager, getCurrentLang, total)
                 = getFilteredPosts(blogManager, getCurrentLang)

\* C3 witness: an unfiltered listing of 10 published posts out of a document
\* that also holds 2 unpublished ones, paginated as 6 + 4.
C3_Witness ==
    /\ blogInit = "loaded"
    /\ Cardinality(PublishedOfDoc) = 10
    /\ Len(doc.posts) - Cardinality(PublishedOfDoc) = 2
    /\ Len(getFilteredPosts(blogManager, getCurrentLang)) = 10
    /\ getTotalPages(blogManager, getCurrentLang) = 2
    /\ Len(getPaginatedPosts([blogManager EXCEPT !.currentPage = 1], getCurrentLang)) = 6
    /\ Len(getPaginatedPosts([blogManager EXCEPT !.currentPage = 2], getCurrentLang)) = 4

\* text contains query, compared character by character without regard to case.
ContainsIgnoringCase(text, query) ==
    \E k \in 0..(Len(text) - Len(query)) :
        \A j \in 1..Len(query) : LowerChar(text[k + j]) = LowerChar(query[j])

\* The published posts of the document that satisfy every active filter.
MatchingOfDoc ==
    { i \in PublishedOfDoc :
        LET p == doc.posts[i]
        IN  /\ blogManager.currentCategory = "all"
               \/ p.category = blogManager.currentCategory
            /\ blogManager.currentTag = NoTag
               \/ blogManager.currentTag \in { p.tags[n] : n \in 1..Len(p.tags) }
            /\ blogManager.searchQuery = << >>
               \/ ContainsIgnoringCase(p.title[getCurrentLang], blogManager.searchQuery)
               \/ ContainsIgnoringCase(p.excerpt[getCurrentLang], blogManager.searchQuery) }

\* C4: getFilteredPosts() returns exactly the published posts that satisfy all
\* active filters at once (category, tag, case-insensitive query on the
\* current-language title or excerpt), each of them once.
C4_ExactlyTheMatchingPosts ==
    blogInit = "loaded" =>
        LET filtered == getFilteredPosts(blogManager, getCurrentLang)
        IN  /\ { filtered[n].id : n \in 1..Len(filtered) }
                 = { doc.posts[i].id : i \in MatchingOfDoc }
            /\ Len(filtered) = Cardinality(MatchingOfDoc)

\* C4 witness: category, tag and a query in another case than the text are
\* active together, some post matches and some published post does not.
C4_Witness ==
    /\ blogInit = "loaded"
    /\ blogManager.currentCategory # "all"
    /\ blogManager.currentTag # NoTag
    /\ blogManager.searchQuery = <<"B", "c">>
    /\ MatchingOfDoc # {}
    /\ MatchingOfDoc # PublishedOfDoc

\* The step just taken ran handler `name`.
Ran(name) == lastOp'.op = name

\* C5 as stated: a category click leaves the selected tag unchanged and a tag
\* click leaves the selected category unchanged.
C5_CategoryAndTagIndependent ==
    [][ /\ Ran("category") => blogManager'.currentTag = blogManager.currentTag
        /\ Ran("tag") => blogManager'.currentCategory = blogManager.currentCategory
      ]_vars

\* C5 amended: a tag click leaves the selected category unchanged, while a
\* category click selects the clicked category and resets the tag to null; so
\* category and tag are both active only when the tag was selected after the
\* category.
C5_TagKeepsCategoryCategoryClearsTag ==
    [][ /\ Ran("tag") => blogManager'.currentCategory = blogManager.currentCategory
        /\ Ran("category") =>
             /\ blogManager'.currentTag = NoTag
             /\ \E n \in 1..Len(blogDom.categoryList) :
                  blogManager'.currentCategory = blogDom.categoryList[n].key
      ]_vars

\* C5 witness: a tag click has just produced a state with both a category
\* and a tag active.
C5_Witness ==
    /\ lastOp.op = "tag"
    /\ blogManager.currentCategory # "all"
    /\ blogManager.currentTag # NoTag

\* C6: every change of the Filter State (category click, tag click or
\* un-select, debounced search) sets currentPage to 1 before the render it
\* triggers, so the grid shows the first page of the new filtered result.
C6_FilterChangeResetsPage ==
    [][ (Ran("category") \/ Ran("tag") \/ Ran("search")) =>
          LET filtered == getFilteredPosts(blogManager', getCurrentLang)
              shown    == IF Len(filtered) < postsPerPage
                          THEN Len(filtered) ELSE postsPerPage
          IN  /\ blogManager'.currentPage = 1
              /\ lastOp'.renders = 1
              /\ blogDom'.blogGrid.ids = [n \in 1..shown |-> filtered[n].id]
      ]_vars

\* C6 witness: a filter change that found the listing on a later page.
C6_Witness ==
    /\ lastOp.op \in {"category", "tag", "search"}
    /\ lastOp.fromPage > 1
    /\ blogManager.currentPage = 1
    /\ blogDom.blogGrid.kind = "cards"

\* C7: whenever an accepted setLanguage call changes the language, the blog
\* listing is re-rendered in the new language and the Filter State is exactly
\* what it was.
C7_LanguageChangeRerendersListing ==
    [][ (Ran("setLanguage") /\ lastOp'.code \in Langs /\ i18n.currentLang # lastOp'.code) =>
          /\ blogManager' = blogManager
          /\ blogDom'.blogGrid.kind # "markup" =>
               blogDom'.blogGrid.lang = i18n'.currentLang
      ]_vars

\* The safety part of C8, step by step.
DebounceStep ==
        /\ Ran("input") =>
             /\ blogManager' = blogManager
             /\ blogDom' = blogDom
             /\ lastOp'.renders = 0
             /\ blogInit = "loaded" => timeout' = 300
        /\ blogManager'.searchQuery # blogManager.searchQuery => Ran("search")
        /\ Ran("search") =>
             /\ timeout = 0
             /\ timeout' = -1
             /\ blogManager'.searchQuery = blogSearch
             /\ lastOp'.renders = 1
        /\ (timeout >= 0 /\ timeout' > timeout) => Ran("input")
        /\ (timeout = -1 /\ timeout' # -1) => Ran("input")
        /\ (timeout >= 0 /\ timeout' = -1) => Ran("search")

\* C8: the search input is debounced with a trailing 300 ms wait. An input
\* event neither mutates searchQuery nor renders, it (re)starts the 300 ms
\* timer; searchQuery changes only when the timer fires, which happens 300 ms
\* after the last input event, once, with the input's latest value and one
\* render, and leaves no timer pending. Unless input events keep arriving
\* for ever, the pending timer does fire.
C8_TrailingDebounce ==
    /\ [][DebounceStep]_vars
    /\ <>[](timeout = -1) \/ []<>(lastOp.op = "input")

\* C8 witness: the timer has fired after typing, and the query is the typed value.
C8_Witness ==
    /\ lastOp.op = "search"
    /\ blogManager.searchQuery # << >>
    /\ blogManager.searchQuery = blogSearch
    /\ timeout = -1

\* C9: setLanguage(code) with a code other than 'en' or 'pt' has no effect:
\* current and persisted language, the text of every tagged element, the
\* active language button and the rendered lists are unchanged, and no
\* subscriber is notified.
C9_UnrecognizedCodeIsNoOp ==
    [][ (Ran("setLanguage") /\ lastOp'.code \notin {"en", "pt"}) =>
          /\ i18n' = i18n
          /\ localStorage' = localStorage
          /\ chrome' = chrome
          /\ blogDom' = blogDom
          /\ researchDom' = researchDom
          /\ lastOp'.notified = << >>
          /\ lastOp'.renders = 0
      ]_vars

\* C9 witness: setLanguage('fr') was called with translations loaded, a
\* subscriber registered and Portuguese current.
C9_Witness ==
    /\ lastOp.op = "setLanguage"
    /\ lastOp.code = "fr"
    /\ i18nInit = "loaded"
    /\ Len(i18n.observers) >= 1
    /\ i18n.currentLang = "pt"

\* s is an initial segment of t.
IsPrefix(s, t) == Len(s) <= Len(t) /\ SubSeq(t, 1, Len(s)) = s

\* C10: setLanguage(code) with a recognized code persists the code and,
\* before it returns, invokes every subscriber registered so far exactly once
\* with the new code, in registration order (the blog and research listings
\* are then rendered in it); no subscriber is ever removed, so each is invoked
\* on every later language change.
C10_NotifiesAllInRegistrationOrder ==
    [][ /\ (Ran("setLanguage") /\ lastOp'.code \in {"en", "pt"}) =>
             /\ localStorage'.language = lastOp'.code
             /\ i18n'.currentLang = lastOp'.code
             /\ lastOp'.notified =
                  [n \in 1..Len(i18n.observers) |->
                      [ who |-> i18n.observers[n], lang |-> lastOp'.code ]]
             /\ ArrIncludes(i18n.observers, "blog") =>
                  blogDom'.blogGrid.lang = lastOp'.code
             /\ ArrIncludes(i18n.observers, "research") =>
                  researchDom'.lang = lastOp'.code
        /\ IsPrefix(i18n.observers, i18n'.observers)
      ]_vars

\* C10 witness: a language switch notified two subscribers, the research
\* listing having registered before the blog listing.
C10_Witness ==
    /\ lastOp.op = "setLanguage"
    /\ lastOp.code = "pt"
    /\ localStorage.language = "pt"
    /\ Len(lastOp.notified) = 2
    /\ lastOp.notified[1].who = "research"
    /\ lastOp.notified[2].who = "blog"

\* Keys handed to translate(): the tagged keys, the name of a sub-table, and
\* paths that run past a string or past a missing entry.
TranslateKeys ==
    TaggedKeys \cup { <<"n">>, <<"t", ".", "x">>, <<"n", ".", "x">> }

\* Keys of TranslateKeys with a segment that no table of TranslationsDoc has.
MissingKeys == { <<"q">>, <<"t", ".", "x">>, <<"n", ".", "x">> }

\* C11: for every key, translate(key) is a non-empty string, and it is the key
\* itself when a segment of the path is missing from the current table.
C11_TranslateReturnsStringOrKey ==
    \A key \in TranslateKeys :
        LET r == translate(i18n, key)
        IN  /\ r.t = "str"
            /\ r.v # << >>
            /\ key \in MissingKeys => r = Str(key)

\* C12: a reload gives back the language last set by setLanguage and the hue
\* last applied by applyTheme, for either recognized language and every hue
\* in 0..359.
C12_PreferencesSurviveReload ==
    [][ Ran("reload") =>
          /\ (i18n.currentLang \in Langs /\ localStorage.language = i18n.currentLang)
                => i18n'.currentLang = i18n.currentLang
          /\ theme.currentHue \in 0..359 => theme'.currentHue = theme.currentHue
      ]_vars

\* C13: whatever localStorage held at the load and whatever is clicked or
\* picked, the current language is 'en' or 'pt' and the hue is in 0..359.
C13_LanguageAndHueInRange ==
    /\ i18n.currentLang \in Langs
    /\ theme.currentHue \in 0..359

\* The preset buttons marked active.
ActivePresets == { n \in 1..Len(theme.buttons) : theme.buttons[n].active }

\* C14 as stated: exactly one of the 8 preset buttons is active, and its hue
\* is the current hue.
C14_ExactlyOnePresetActive ==
    /\ Len(theme.buttons) = 8
    /\ Cardinality(ActivePresets) = 1
    /\ \A n \in ActivePresets : Presets[n].hue = theme.currentHue

\* C14, amended: there are 8 preset buttons, a button is active exactly when
\* its preset's hue equals the current hue, and so at most one is active: one
\* when the current hue is a preset hue, none otherwise.
C14_ActiveIffPresetHueIsCurrent ==
    /\ Len(theme.buttons) = 8
    /\ \A n \in 1..Len(theme.buttons) :
          /\ theme.buttons[n].preset = Presets[n].key
          /\ theme.buttons[n].active <=> (Presets[n].hue = theme.currentHue)
    /\ Cardinality(ActivePresets) <= 1
    /\ (Cardinality(ActivePresets) = 1) <=>
          (\E n \in 1..Len(Presets) : Presets[n].hue = theme.currentHue)

\* C14 witness: a colour was picked whose hue is the gold preset's, and the
\* gold button, after another one had been active, is the active one.
C14_Witness ==
    /\ lastOp.op = "picker"
    /\ theme.currentHue = 45
    /\ \E n \in ActivePresets : theme.buttons[n].preset = "gold"

\* The rendered previous / next button is disabled.
EdgeDisabled(kind) ==
    \A n \in 1..Len(blogDom.blogPagination) :
        blogDom.blogPagination[n].kind = kind => blogDom.blogPagination[n].disabled

\* C15: on the first page the previous button and on the last page the next
\* button is disabled; a click on a disabled button changes nothing and
\* renders nothing; a click that takes effect leaves currentPage within
\* 1..getTotalPages() and scrolls to the top.
C15_PaginationStaysInRange ==
    [][ /\ (blogInit = "loaded" /\ blogManager.currentPage = 1)
              => EdgeDisabled("prev")
        /\ ( /\ blogInit = "loaded"
             /\ blogManager.currentPage = getTotalPages(blogManager, getCurrentLang) )
              => EdgeDisabled("next")
        /\ Ran("pageDisabled") =>
              /\ blogManager' = blogManager
              /\ blogDom' = blogDom
              /\ lastOp'.renders = 0
        /\ Ran("page") =>
              /\ blogManager'.currentPage \in
                    1..getTotalPages(blogManager', getCurrentLang')
              /\ lastOp'.scrollTop
      ]_vars

\* C16: a failed load of blog-posts.json is absorbed by init(): the step
\* leaves the post list empty and puts the 'no posts found' message of the
\* current language in the grid, touches nothing outside the blog listing,
\* and the post list is empty in every state after it.
C16_FailedLoadShowsEmptyMessage ==
    [][ /\ Ran("blogInitFail") =>
              /\ blogManager'.posts = << >>
              /\ blogDom'.blogGrid = [ kind |-> "empty", lang |-> i18n.currentLang,
                                       ids |-> << >> ]
              /\ UNCHANGED << i18nVars, researchVars, widgetVars >>
        /\ blogInit = "failed" =>
              /\ blogManager.posts = << >>
              /\ blogDom.blogGrid.kind = "empty"
      ]_vars

\* C16 witness: the load failed while the language was Portuguese, and the
\* grid holds the Portuguese message.
C16_Witness ==
    /\ lastOp.op = "blogInitFail"
    /\ blogInit = "failed"
    /\ i18n.currentLang = "pt"
    /\ blogDom.blogGrid = renderEmpty("pt")

\* C17: once a fetch has failed it is never retried, and every later step
\* leaves what it feeds in its default state: the tagged elements keep the
\* text of the markup after a failed translations fetch, the post list stays
\* empty after a failed blog fetch, the research lists stay as shipped after
\* a failed research fetch.
C17_FailedFetchKeepsDefaults ==
    [][ /\ i18nInit = "failed" =>
              /\ i18nInit' = "failed"
              /\ chrome'.text = MarkupChrome.text
        /\ blogInit = "failed" =>
              /\ blogInit' = "failed"
              /\ blogManager'.posts = << >>
              /\ blogDom'.blogGrid.kind = "empty"
        /\ researchInit = "failed" =>
              /\ researchInit' = "failed"
              /\ researchDom' = MarkupResearch
      ]_vars

\* Position of post p in the loaded posts array.
LoadedIndex(p) ==
    CHOOSE k \in 1..Len(blogManager.posts) : blogManager.posts[k].id = p.id

\* C18: the result of getFilteredPosts() is in descending date order, posts
\* of one date are in the order they have in the loaded posts array, and the
\* loaded array is still in the order of the document.
C18_SortedByDateStable ==
    blogInit = "loaded" =>
        LET filtered == getFilteredPosts(blogManager, getCurrentLang)
        IN  /\ \A i, j \in 1..Len(filtered) :
                  i < j =>
                      \/ filtered[i].date > filtered[j].date
                      \/ /\ filtered[i].date = filtered[j].date
                         /\ LoadedIndex(filtered[i]) < LoadedIndex(filtered[j])
            /\ \A k \in 1..Len(blogManager.posts) :
                  blogManager.posts[k].id \in PublishedOfDoc
            /\ \A k \in 1..(Len(blogManager.posts) - 1) :
                  blogManager.posts[k].id < blogManager.posts[k + 1].id

\* C18 witness: a filtered result in which the sort moved a post in front of
\* one loaded before it, and which holds two posts of one date.
C18_Witness ==
    /\ blogInit = "loaded"
    /\ LET filtered == getFilteredPosts(blogManager, getCurrentLang)
       IN  /\ \E i, j \in 1..Len(filtered) :
                  i < j /\ LoadedIndex(filtered[i]) > LoadedIndex(filtered[j])
           /\ \E i, j \in 1..Len(filtered) :
                  i < j /\ filtered[i].date = filtered[j].date

\* Every category key of the served document: those of its posts and those of
\* its two category tables.
CategoryKeys ==
    { doc.posts[i].category : i \in 1..Len(doc.posts) }
    \cup { doc.categories.en[n] : n \in 1..Len(doc.categories.en) }
    \cup { doc.categories.pt[n] : n \in 1..Len(doc.categories.pt) }

\* Number of published posts of the document with category `key`.
PublishedIn(key) ==
    Cardinality({ i \in PublishedOfDoc : doc.posts[i].category = key })

\* Entries of the rendered category list for `key`.
ListedAs(key) ==
    { n \in 1..Len(blogDom.categoryList) : blogDom.categoryList[n].key = key }

\* The keys of the category table of the current language.
TableKeys ==
    { doc.categories[getCurrentLang][n] :
        n \in 1..Len(doc.categories[getCurrentLang]) }

\* A filter that matches no post shows the 'no posts found' message.
EmptyResultShowsMessage ==
    getFilteredPosts(blogManager, getCurrentLang) = << >>
        => blogDom.blogGrid = renderEmpty(getCurrentLang)

\* C19 as stated: the category list has an entry for a key exactly when a
\* published post has that category, with the number of such posts as its
\* count, and a filter that matches no post shows the 'no posts found' message.
C19_ListedIffPublishedPost ==
    blogInit = "loaded" =>
        /\ \A key \in CategoryKeys :
              /\ (ListedAs(key) # {}) <=> (PublishedIn(key) > 0)
              /\ \A n \in ListedAs(key) :
                    blogDom.categoryList[n].count = PublishedIn(key)
        /\ EmptyResultShowsMessage

\* C19, amended: the list has one entry for a key exactly when the key is in
\* the category table of the current language and a published post has that
\* category; its count is the number of such posts; a key with no published
\* post, and a category that the table does not name, has no entry; a filter
\* that matches no post shows the 'no posts found' message.
C19_ListedIffInTableAndPublished ==
    blogInit = "loaded" =>
        /\ \A key \in CategoryKeys :
              /\ (ListedAs(key) # {}) <=> (key \in TableKeys /\ PublishedIn(key) > 0)
              /\ Cardinality(ListedAs(key)) <= 1
              /\ \A n \in ListedAs(key) :
                    blogDom.categoryList[n].count = PublishedIn(key)
        /\ EmptyResultShowsMessage

\* C19 witness: in Portuguese, "notes" has published posts and no entry,
\* "empty" is in the table without posts and has no entry, "tech" has its
\* entry, and the filters chosen match no post, so the message is shown.
C19_Witness ==
    /\ blogInit = "loaded"
    /\ getCurrentLang = "pt"
    /\ PublishedIn("notes") > 0 /\ ListedAs("notes") = {}
    /\ PublishedIn("empty") = 0 /\ ListedAs("empty") = {}
    /\ ListedAs("tech") # {}
    /\ blogManager.currentCategory # "all"
    /\ blogDom.blogGrid.kind = "empty"

\* C20: after every tab click and language change exactly one of the three
\* research lists is shown; after a tab click it is the list of the clicked
\* tab, and that tab is the active one; a language change leaves the tabs
\* and the lists' visibility as they were.
C20_LastClickedTabIsShown ==
    [][ /\ Cardinality({ c \in TabSet : tabs'.content[c] }) = 1
        /\ Cardinality({ t \in TabSet : tabs'.tab[t] }) = 1
        /\ Ran("tab") =>
              /\ tabs'.content[lastOp'.code]
              /\ tabs'.tab[lastOp'.code]
        /\ Ran("setLanguage") => tabs' = tabs
      ]_vars

\* The rendered cards, as pairs of container and position.
CardsOf(dom) ==
    { <<c, n>> \in Containers \X (1..(MaxItems + 1)) : n <= Len(dom.lists[c].cards) }

\* C21: a click on a card's abstract toggle flips that card's expanded state,
\* leaves the button with 'Show Less' when expanded and 'Read More' when
\* collapsed (in the language of the render), and changes no other card.
C21_ToggleFlipsOneCard ==
    [][ Ran("abstract") =>
          LET c    == lastOp'.code
              n    == lastOp'.item
              old  == researchDom.lists[c].cards[n]
              new  == researchDom'.lists[c].cards[n]
              lang == researchDom.lists[c].lang
          IN  /\ new.expanded = ~old.expanded
              /\ new.label = IF new.expanded THEN showLessLabel(lang)
                             ELSE readMoreLabel(lang)
              /\ CardsOf(researchDom') = CardsOf(researchDom)
              /\ \A other \in CardsOf(researchDom) \ { <<c, n>> } :
                    researchDom'.lists[other[1]].cards[other[2]]
                        = researchDom.lists[other[1]].cards[other[2]]
      ]_vars

\* C21 witness: a toggle was clicked and now every card, in two lists, is
\* expanded at the same time.
C21_Witness ==
    /\ lastOp.op = "abstract"
    /\ Cardinality(CardsOf(researchDom)) = MaxItems + 1
    /\ \A card \in CardsOf(researchDom) :
          /\ researchDom.lists[card[1]].cards[card[2]].expanded
          /\ researchDom.lists[card[1]].cards[card[2]].label
                = showLessLabel(researchDom.lang)

\* C22: once config.json has loaded, one fetch was issued, every link tagged
\* for a platform that has a URL carries that URL, every profile-name element
\* shows profile.name, and every CV-download link carries cv.pdfPath whenever
\* the document has one.
C22_EveryBindingInjected ==
    configInit = "loaded" =>
        LET config == configManager.config
        IN  /\ configManager.fetches = 1
            /\ \A p \in SocialTagged :
                  (config.social.present /\ SocialUrl(config, p) # "")
                      => configDom.social[p] = SocialUrl(config, p)
            /\ \A p \in SocialTextTagged :
                  (config.social.present /\ SocialUrl(config, p) # "")
                      => configDom.socialText[p] = SocialUrl(config, p)
            /\ config.profile.present => configDom.name = config.profile.name
            /\ (config.cv.present /\ config.cv.pdfPath # "")
                  => configDom.cv = config.cv.pdfPath

\* ------------------------------------------------------------------ C23
PresetHues == { Presets[p].hue : p \in 1..Len(Presets) }

HueDistance(a, b) == IF a >= b THEN a - b ELSE b - a

\* C23: for each of the 8 preset hues h, the hue of
\* hexToHsl(hslToHex(h, 70, 50)) is within 1 degree of h; so whenever the
\* current hue is a preset hue, reading the picker's colour back through
\* hexToHsl gives a hue within 1 degree of the current hue.
C23_PresetHueRoundTrip ==
    /\ \A h \in PresetHues : HueDistance(hexToHsl(hslToHex(h, 70, 50)).h, h) <= 1
    /\ theme.currentHue \in PresetHues
          => HueDistance(hexToHsl(theme.colorPicker).h, theme.currentHue) <= 1

\* The rose preset (hue 350, on the blue side of red) has been clicked and
\* its picker colour reads back as hue 350.
C23_Witness ==
    /\ lastOp.op = "preset"
    /\ theme.currentHue = 350
    /\ theme.colorPicker = hslToHex(350, 70, 50)
    /\ hexToHsl(theme.colorPicker).h = 350

\* ------------------------------------------------------------------ C24
\* C24: once the translations fetch has succeeded, whatever setLanguage calls
\* ran before or after it, every tagged element shows the translation of its
\* key for the current language (the key itself where the table has no text
\* for it), the document language is the current language, and exactly the
\* button of the current language is active.
C24_LoadedPageShowsCurrentLanguage ==
    i18nInit = "loaded" =>
        /\ \A k \in TaggedKeys : chrome.text[k] = TextContent(translate(i18n, k))
        /\ chrome.text[<<"t">>] =
               (IF i18n.currentLang = "pt" THEN <<"T", "p">> ELSE <<"T", "e">>)
        /\ chrome.text[<<"n", ".", "h">>] =
               (IF i18n.currentLang = "pt" THEN <<"O", "i">> ELSE <<"H", "i">>)
        /\ chrome.text[<<"e">>] = <<"e">>
        /\ chrome.text[<<"q">>] = <<"q">>
        /\ chrome.htmlLang = i18n.currentLang
        /\ \A btn \in Langs : chrome.langBtn[btn] <=> (btn = i18n.currentLang)

\* The fetch completes while Portuguese is the current language: the sweep
\* of init() writes the Portuguese texts and activates the 'pt' button.
C24_Witness ==
    /\ lastOp.op = "i18nInit"
    /\ i18nInit = "loaded"
    /\ i18n.currentLang = "pt"
    /\ chrome.text[<<"t">>] = <<"T", "p">>
    /\ chrome.langBtn["pt"] /\ ~chrome.langBtn["en"]

\* ------------------------------------------------------------------ C25
\* The entries of the tag cloud that carry the 'active' class.
ActiveTags(dom) == { n \in 1..Len(dom.tagCloud) : dom.tagCloud[n].active }

\* C25: a click on the selected tag sets the tag filter to null and a click
\* on any other tag selects it; the second of two consecutive clicks on one
\* tag gives back the tag state before the first when that was null (or that
\* tag), and null otherwise; after every step at most one tag of the cloud
\* is active, and it is the selected one; a category click clears the tag.
C25_TagClickToggles ==
    [][ /\ Ran("tag") =>
              blogManager'.currentTag =
                 (IF blogManager.currentTag = lastOp'.code THEN NoTag ELSE lastOp'.code)
        /\ (Ran("tag") /\ lastOp.op = "tag" /\ lastOp'.code = lastOp.code) =>
              /\ lastOp.fromTag = NoTag => blogManager'.currentTag = NoTag
              /\ lastOp.fromTag = lastOp.code => blogManager'.currentTag = lastOp.code
              /\ lastOp.fromTag \notin { NoTag, lastOp.code } =>
                    blogManager'.currentTag = NoTag
        /\ Cardinality(ActiveTags(blogDom')) <= 1
        /\ \A n \in 1..Len(blogDom'.tagCloud) :
              blogDom'.tagCloud[n].active
                 <=> (blogDom'.tagCloud[n].tag = blogManager'.currentTag)
        /\ Ran("category") =>
              /\ blogManager'.currentTag = NoTag
              /\ ActiveTags(blogDom') = {}
      ]_vars

\* The second of two consecutive clicks on one tag, begun with no tag
\* selected: the first selected it, the second has cleared the filter.
C25_Witness ==
    /\ lastOp.op = "tag"
    /\ lastOp.fromTag = lastOp.code
    /\ blogManager.currentTag = NoTag
    /\ blogDom.tagCloud # << >>
    /\ ActiveTags(blogDom) = {}

\* ------------------------------------------------------------------ C26
\* The card at a pair of container and position.
CardAt(dom, at) == dom.lists[at[1]].cards[at[2]]

\* C26: a language change after the research data has loaded renders all
\* three lists again from the data, so after it every card is collapsed and
\* its button shows the 'read more' label of the new language; after every
\* step each toggle button carries exactly one click handler, and a click on
\* it flips the card's state once.
C26_LanguageChangeCollapsesCards ==
    [][ /\ (Ran("setLanguage") /\ lastOp'.code \in Langs /\ researchInit = "loaded") =>
              /\ researchDom'.lang = lastOp'.code
              /\ \A n \in 1..Len(ResearchLists) :
                    LET list  == researchDom'.lists[ResearchLists[n].container]
                        items == researchManager.data[ResearchLists[n].field]
                    IN  /\ list.lang = lastOp'.code
                        /\ Len(list.cards) = Len(items)
                        /\ \A k \in 1..Len(items) : list.cards[k].id = items[k].id
              /\ \A at \in CardsOf(researchDom') :
                    /\ ~CardAt(researchDom', at).expanded
                    /\ CardAt(researchDom', at).label = readMoreLabel(lastOp'.code)
                    /\ CardAt(researchDom', at).label =
                          (IF lastOp'.code = "pt" THEN "Ler Mais" ELSE "Read More")
        /\ \A at \in CardsOf(researchDom') : CardAt(researchDom', at).handlers = 1
        /\ Ran("abstract") =>
              CardAt(researchDom', << lastOp'.code, lastOp'.item >>).expanded
                 = ~CardAt(researchDom, << lastOp'.code, lastOp'.item >>).expanded
      ]_vars

\* The language was changed to Portuguese after the research data had
\* loaded: all cards of the document are on the page again, collapsed, with
\* the Portuguese label and one handler each.
C26_Witness ==
    /\ lastOp.op = "setLanguage"
    /\ lastOp.code = "pt"
    /\ researchInit = "loaded"
    /\ Cardinality(CardsOf(researchDom)) = MaxItems + 1
    /\ \A at \in CardsOf(researchDom) :
          /\ ~CardAt(researchDom, at).expanded
          /\ CardAt(researchDom, at).label = "Ler Mais"
          /\ CardAt(researchDom, at).handlers = 1

====
